---- MODULE Spec2Model ----
(***************************************************************************)
(* Batch dispatch, per-item failure isolation and keyed persistence of the *)
(* castle narrative pipeline.                                              *)
(*                                                                         *)
(*   ScalableCastleProcessor.process_thousands_of_castles                  *)
(*   CulturalAutomationIntegrator.run_integrated_pipeline (batch loop)     *)
(*   ScalableCastleProcessor.process_castle_batch / process_single_castle  *)
(*   ScalableCastleProcessor._store_narrative / setup_database             *)
(*                                                                         *)
(* The asyncio event loop is single threaded: code between two awaits is   *)
(* one atomic step.  A run suspends at `await asyncio.gather(...)` and at  *)
(* `await asyncio.sleep(1)`; an item task suspends inside                  *)
(* enrich_castle_data (the HTTP fetches) and runs from there to its        *)
(* return, including the sink write, without suspending again.             *)
(***************************************************************************)
EXTENDS Integers, Sequences, FiniteSets, TLC

\* ---------------------------------------------------------------- bounds
MaxItems == 3
MaxBatchSize == 3
MaxRuns == 2

\* ----------------------------------------------------------- input data
\* CastleData records (the fields the modelled code reads).  Two of the
\* castles share a name and differ in location.  wikipedia is how the
\* Wikipedia summary request made for the item ends: with a page summary
\* (status 200), with another status ("empty"), or with an exception raised
\* by the request when the HTTP client's time bound expires ("timeout").
\* wikidata is how the Wikidata query made for the item ends: with result
\* bindings (status 200), with another status, or with an exception.
CastleCatalogue ==
  << [name |-> "Windsor Castle", location |-> "Windsor, England",
      built_year |-> 1070, architectural_style |-> "Norman",
      notable_rulers |-> 3, military_events |-> 2, external_sources |-> 3,
      wikipedia |-> "summary", wikidata |-> "bindings"],
     [name |-> "Warwick Castle", location |-> "Warwick, Warwickshire",
      built_year |-> 1068, architectural_style |-> "Norman Medieval",
      notable_rulers |-> 2, military_events |-> 1, external_sources |-> 2,
      wikipedia |-> "empty", wikidata |-> "timeout"],
     [name |-> "Windsor Castle", location |-> "Windsor, Ontario",
      built_year |-> 0, architectural_style |-> "",
      notable_rulers |-> 0, military_events |-> 0, external_sources |-> 1,
      wikipedia |-> "timeout", wikidata |-> "empty"],
     [name |-> "Chateau de Chambord", location |-> "Loire Valley",
      built_year |-> 1519, architectural_style |-> "French Renaissance",
      notable_rulers |-> 1, military_events |-> 0, external_sources |-> 3,
      wikipedia |-> "summary", wikidata |-> "empty"] >>

\* the members of a set of catalogue positions, in ascending order
RECURSIVE Ascending(_)
Ascending(S) ==
  IF S = {} THEN <<>>
  ELSE LET m == CHOOSE x \in S : \A y \in S : x <= y
       IN  << CastleCatalogue[m] >> \o Ascending(S \ { m })

\* a list back to front
Reversed(l) == [ p \in 1 .. Len(l) |-> l[Len(l) + 1 - p] ]

\* the item lists a run is given: 0..n pairwise distinct items (a WorkItem
\* is identified by its natural key), in catalogue order or in the opposite
\* order
ItemLists(n) ==
  LET picks == { S \in SUBSET (1 .. Len(CastleCatalogue)) : Cardinality(S) <= n }
  IN  { Ascending(S) : S \in picks } \cup { Reversed(Ascending(S)) : S \in picks }

Min(a, b) == IF a < b THEN a ELSE b

\* ------------------------------------------------------- pure functions
\* an exception of the request leaves _fetch_wikipedia_data
fetch_wikipedia_data_raising(castle) ==
  IF castle.wikipedia = "timeout" THEN "raise" ELSE castle.wikipedia

\* _fetch_wikipedia_data: the JSON of a 200 response; {} for another status
\* and {} for any exception of the request (except Exception: return {})
fetch_wikipedia_data(castle) ==
  IF castle.wikipedia = "summary" THEN "summary" ELSE "empty"

\* _fetch_wikidata_info: the bindings of a 200 response; {} for another
\* status and {} for any exception of the request
fetch_wikidata_info(castle) ==
  IF castle.wikidata = "bindings" THEN "bindings" ELSE "empty"

\* enrich_castle_data from its two fetches to its return: an exception that
\* leaves a fetch leaves enrich_castle_data before raw_data.update; otherwise
\* raw_data is updated with what the fetches returned.  Nothing reads
\* wikidata_structured afterwards.
enrich_castle_data(castle) ==
  LET wiki_data     == fetch_wikipedia_data(castle)
      wikidata_info == fetch_wikidata_info(castle)
  IN  IF wiki_data = "raise" \/ wikidata_info = "raise"
      THEN [ exception |-> "ClientError", wikipedia_summary |-> "unset" ]
      ELSE [ exception |-> "none", wikipedia_summary |-> wiki_data ]

\* the score is returned as summed, without min(score, 1.0)
assess_data_quality_unclamped(castle, wiki) ==
    (IF castle.name # "" THEN 2 ELSE 0)
  + (IF castle.location # "" THEN 2 ELSE 0)
  + (IF castle.built_year # 0 THEN 2 ELSE 0)
  + (IF castle.architectural_style # "" THEN 2 ELSE 0)
  + (IF castle.notable_rulers > 0 THEN 1 ELSE 0)
  + (IF castle.military_events > 0 THEN 1 ELSE 0)
  + (IF castle.external_sources > 2 THEN 1 ELSE 0)
  + (IF wiki THEN 1 ELSE 0)

\* _assess_data_quality, in tenths (0.2 -> 2, 0.1 -> 1, min(score, 1.0)).
\* wiki is raw_data.get("wikipedia_summary") being truthy.
assess_data_quality(castle, wiki) ==
  Min( (IF castle.name # "" THEN 2 ELSE 0)
     + (IF castle.location # "" THEN 2 ELSE 0)
     + (IF castle.built_year # 0 THEN 2 ELSE 0)
     + (IF castle.architectural_style # "" THEN 2 ELSE 0)
     + (IF castle.notable_rulers > 0 THEN 1 ELSE 0)
     + (IF castle.military_events > 0 THEN 1 ELSE 0)
     + (IF castle.external_sources > 2 THEN 1 ELSE 0)
     + (IF wiki THEN 1 ELSE 0),
     10)

\* DataFormatTranslator._parse_year: the first four-digit number in the
\* string; None (written 0) for an empty string and for one without such a
\* number
parse_year(year_string) == IF year_string = "1070" THEN 1070 ELSE 0

\* DataFormatTranslator._assess_quality, in tenths.  year_built is tested as
\* the string it is (a non-empty string counts, parseable or not);
\* description counts when it is longer than 100 characters.
assess_quality(w4) ==
  Min( (IF w4.name # "" THEN 2 ELSE 0)
     + (IF w4.country # "" THEN 2 ELSE 0)
     + (IF w4.location # "" THEN 2 ELSE 0)
     + (IF w4.coordinates # "None" THEN 2 ELSE 0)
     + (IF w4.year_built # "" THEN 1 ELSE 0)
     + (IF w4.architectural_style # "" THEN 1 ELSE 0)
     + (IF w4.description_len > 100 THEN 2 ELSE 0),
     10)

\* DataFormatTranslator.worker4_to_unified (the fields that carry over, the
\* parsed year and the score)
worker4_to_unified(w4) ==
  [ name |-> w4.name, country |-> w4.country, location |-> w4.location,
    coordinates |-> w4.coordinates,
    built_year |-> parse_year(w4.year_built),
    architectural_style |-> w4.architectural_style,
    data_quality_score |-> assess_quality(w4) ]

\* the narrative dict built by process_single_castle
narrative_of(castle, wiki) ==
  [ castle_name   |-> castle.name,
    socialHistory |-> castle.location,
    rulerBiographies |-> Min(castle.notable_rulers, 3),
    sourceCount   |-> castle.external_sources,
    dataQuality   |-> assess_data_quality(castle, wiki) ]

\* a row of table castle_narratives: the AUTOINCREMENT id and the five
\* columns the INSERT names
narrative_row(narrative, rowid, now) ==
  [ id |-> rowid,
    castle_name |-> narrative.castle_name,
    country |-> "Unknown",
    generated_narrative |-> narrative,
    processing_timestamp |-> now,
    quality_score |-> narrative.dataQuality ]

\* a plain INSERT: the conflicting row stays
store_narrative_insert_only(table, narrative, rowid, now) ==
  table \cup { narrative_row(narrative, rowid, now) }

\* INSERT OR IGNORE: the earlier row stays, the new one is dropped
store_narrative_first_wins(table, narrative, rowid, now) ==
  IF \E r \in table : r.castle_name = narrative.castle_name
  THEN table
  ELSE table \cup { narrative_row(narrative, rowid, now) }

\* an upsert that updates the timestamp and the score of the conflicting
\* row and leaves its narrative column as it was
store_narrative_partial_update(table, narrative, rowid, now) ==
  IF \E r \in table : r.castle_name = narrative.castle_name
  THEN { IF r.castle_name = narrative.castle_name
         THEN [ r EXCEPT !.processing_timestamp = now,
                         !.quality_score = narrative.dataQuality ]
         ELSE r : r \in table }
  ELSE table \cup { narrative_row(narrative, rowid, now) }

\* the table is emptied before the row is inserted
store_narrative_truncating(table, narrative, rowid, now) ==
  { narrative_row(narrative, rowid, now) }

\* _store_narrative: INSERT OR REPLACE into a table whose castle_name column
\* is UNIQUE: the conflicting row is deleted, the new row is inserted.
store_narrative(table, narrative, rowid, now) ==
  { r \in table : r.castle_name # narrative.castle_name }
    \cup { narrative_row(narrative, rowid, now) }

\* What a caller gets who calls get(key) on the sink.  ScalableCastleProcessor
\* defines setup_database and _store_narrative and no operation that reads
\* the table (no source file executes a SELECT on it), so the attribute
\* lookup fails before any row is looked at.
sink_get(table, key) == [ outcome |-> "AttributeError" ]

\* A database file: the tables of its schema in creation order, and how the
\* last setup call on it ended.
NoDatabase == [ status |-> "ok", tables |-> <<>> ]

has_table(db, name) == \E p \in DOMAIN db.tables : db.tables[p] = name

\* CREATE TABLE without IF NOT EXISTS: an existing table is an error
create_table(db, name) ==
  IF db.status # "ok" THEN db
  ELSE IF has_table(db, name)
       THEN [ db EXCEPT !.status = "OperationalError" ]
       ELSE [ db EXCEPT !.tables = Append(@, name) ]

\* CREATE TABLE IF NOT EXISTS name: creates the table when the schema has
\* none of that name, and does nothing otherwise.  (A statement is reached
\* only if the ones before it in the same call did not raise.)
create_table_if_not_exists(db, name) ==
  IF db.status # "ok" THEN db
  ELSE IF has_table(db, name) THEN db
       ELSE [ db EXCEPT !.tables = Append(@, name) ]

\* ScalableCastleProcessor.setup_database
setup_database(db) ==
  create_table_if_not_exists([ db EXCEPT !.status = "ok" ], "castle_narratives")

\* CulturalAutomationIntegrator.setup_integration_database
setup_integration_database(db) ==
  create_table_if_not_exists(
    create_table_if_not_exists([ db EXCEPT !.status = "ok" ], "integration_pipeline"),
    "automation_metrics")

\* the rows of table name after a setup call that took the schema from
\* before to after: a table the call created is empty, a table that was
\* there keeps its rows (setup_database executes no other statement)
rows_after_setup(before, after, name, rows) ==
  IF has_table(before, name) THEN rows ELSE {}

\* a setup operation called n times in a row
RECURSIVE setup_times(_, _, _)
setup_times(which, db, n) ==
  IF n = 0 THEN db
  ELSE LET once == IF which = "narratives" THEN setup_database(db)
                   ELSE setup_integration_database(db)
       IN  IF once.status # "ok" THEN once ELSE setup_times(which, once, n - 1)

\* ---------------------------------------------------------------- state
VARIABLES
  castle_data,        \* the item list the loader returns
  raw_data,           \* raw_data["wikipedia_summary"] of each item
  runs,               \* number of runs started
  entry,              \* which run loop is executing
  batch_size,         \* the run's batch_size argument
  total_castles,      \* len(castle_data)
  processed_count,    \* processed_count / total_generated
  i,                  \* loop variable of range(0, total, batch_size)
  pc,                 \* position of the run coroutine
  tasks,              \* state of each item's task
  exceptions,         \* the exception each item's task ended with
  invoked,            \* times process_single_castle started for each item
  completion,         \* items of the current batch that returned a
                      \* narrative, in the order they completed
  successful_results, \* value returned by the last process_castle_batch
  batches,            \* batches formed so far in this run, in order
  batch_outcomes,     \* how each process_castle_batch call ended
  sleeps,             \* asyncio.sleep(1) calls made in this run
  error_log,          \* logger.error entries of this run
  progress_log,       \* per-batch logger.info entries of this run
  returned,           \* value returned by the run
  databases,          \* schema of castle_narratives.db and of the integration db
  castle_narratives,  \* rows of table castle_narratives
  next_id,            \* AUTOINCREMENT sequence of the table
  clock,              \* time.time(), one tick per write
  stored,             \* _store_narrative calls of this run, in order
  replaced,           \* some write so far replaced the row of its key
  succeeded_keys,     \* castle names stored by any run so far
  extracted_castles,  \* run_integrated_pipeline: the Worker4 records extracted
  unified_castles,    \* run_integrated_pipeline: the records converted so far
  all_castles,        \* CastleDataPipeline.all_castles
  collected,          \* all_castles as it was before the last deduplication
  target_count,       \* argument of the current run_full_extraction call
  region,             \* position in sample_regions of the OSM loop
  extraction_pc,      \* position of run_full_extraction
  extraction_returned, \* the list the last run_full_extraction returned
  extractions,        \* run_full_extraction calls made on the pipeline object
  max_workers,        \* OperationalScalabilityEngine.max_workers
  load_factor,        \* argument of the last scale_horizontally call, in hundredths
  scalings,           \* scale_horizontally calls made
  coordinator_pc,     \* position of the three-tier pipeline and of its caller
  pipeline_call,      \* who called the pipeline, and with what arguments
  tier_target,        \* target_count handed to each tier processor
  tier_state,         \* state of each tier processor's coroutine
  tier_position,      \* sources each tier processor has finished
  tier_total,         \* results["total_processed"] of each tier processor
  tier_completion,    \* the tier processors in the order they returned
  tier_results,       \* pipeline_results["tier_results"], by tier
  enhance_position,   \* tier whose enhancement is awaited
  total_enhanced,     \* enhancement_results["total_enhanced"]
  overall_metrics,    \* pipeline_results["overall_metrics"]
  breakthrough_achievement, \* results["breakthrough_achievement"]
  breakthrough_outcome \* how execute_breakthrough_pipeline ended

\* state of the DataFormatTranslator's caller
translator_vars == << extracted_castles, unified_castles >>

\* state of the CastleDataPipeline object and of its run_full_extraction call
extraction_vars == << all_castles, collected, target_count, region,
                      extraction_pc, extraction_returned, extractions >>

\* state of the OperationalScalabilityEngine
scaling_vars == << max_workers, load_factor, scalings >>

\* state of the ThreeTierAutomationCoordinator and of its caller
tier_vars == << coordinator_pc, pipeline_call, tier_target, tier_state,
                tier_position, tier_total, tier_completion, tier_results,
                enhance_position, total_enhanced, overall_metrics,
                breakthrough_achievement, breakthrough_outcome >>

\* state outside the batch pipeline
other_objects == << translator_vars, extraction_vars, scaling_vars, tier_vars >>

\* state of the batch pipeline
pipeline_vars == << castle_data, raw_data, runs, entry, batch_size, total_castles,
           processed_count, i, pc, tasks, exceptions, invoked, completion,
           successful_results, batches, batch_outcomes, sleeps, error_log,
           progress_log, returned, databases, castle_narratives, next_id, clock, stored, replaced,
           succeeded_keys >>

vars == << pipeline_vars, other_objects >>

Items == 1 .. Len(castle_data)

Settled == { "done", "raised" }

\* indices (1-based) of the slice castle_data[s : s + batch_size]
slice_indices(s, size, total) == (s + 1) .. Min(s + size, total)

\* the slice castle_data[s : s + batch_size - 1], one item short
batch_slice_short(data, s, size) == SubSeq(data, s + 1, Min(s + size - 1, Len(data)))

\* castle_data[s : s + batch_size]
batch_slice(data, s, size) == SubSeq(data, s + 1, Min(s + size, Len(data)))

CurrentBatch == slice_indices(i, batch_size, total_castles)

\* the task of item k has finished, with a value or with an exception
is_settled(T, k) == T[k] \in Settled

\* asyncio.gather over a first-completed wait: returns on the first result
gather_ready_first_completed(T, batch) ==
  batch = {} \/ \E k \in batch : is_settled(T, k)

\* `await asyncio.gather(*tasks, return_exceptions=True)` resumes the caller
\* once every task of the batch has a result or an exception.
gather_ready(T, batch) == \A k \in batch : is_settled(T, k)

\* the items of a batch in submission order
submission_order(lo, hi) == [ p \in 1 .. (IF hi >= lo THEN hi - lo + 1 ELSE 0) |-> lo + p - 1 ]

\* the results delivered are those of the tasks that returned, in the order
\* they completed
gather_order_as_completed(s, size, total, done_order) == done_order

\* gather returns one result per awaitable, in the order the awaitables were
\* passed (the order of the tasks list), whatever order they completed in.
gather_order(s, size, total, done_order) ==
  submission_order(s + 1, Min(s + size, total))

\* the result gather holds for item k: its narrative, or the exception
\* object its task raised (raised_by tells the exception objects apart)
result_of(T, X, data, raw, k) ==
  IF T[k] = "raised"
  THEN [ exc |-> TRUE,  item |-> k,
         value |-> [ exception |-> X[k], raised_by |-> k ] ]
  ELSE [ exc |-> FALSE, item |-> k,
         value |-> narrative_of(data[k], raw[k] = "summary") ]

\* the filter loop stops at the first exception (break instead of skip)
RECURSIVE filter_successful_until_error(_)
filter_successful_until_error(results) ==
  IF results = <<>> \/ Head(results).exc THEN <<>>
  ELSE << Head(results).value >> \o filter_successful_until_error(Tail(results))

\* process_castle_batch, lines 426-431: results that are not exceptions, in
\* the order of the results list
RECURSIVE filter_successful(_)
filter_successful(results) ==
  IF results = <<>> THEN <<>>
  ELSE (IF Head(results).exc THEN <<>> ELSE << Head(results).value >>)
         \o filter_successful(Tail(results))

\* the test for an exception is missing: every result is logged
RECURSIVE error_entries_every_result(_, _, _)
error_entries_every_result(results, castle_batch, p) ==
  IF p > Len(results) THEN <<>>
  ELSE << [ name |-> castle_batch[p].name, error |-> results[p].value ] >>
         \o error_entries_every_result(results, castle_batch, p + 1)

\* process_castle_batch, lines 427-429: one logger.error per exception,
\* naming castle_batch[p] for the position p of the exception in results
RECURSIVE error_entries(_, _, _)
error_entries(results, castle_batch, p) ==
  IF p > Len(results) THEN <<>>
  ELSE (IF results[p].exc
        THEN << [ name |-> castle_batch[p].name, error |-> results[p].value ] >>
        ELSE <<>>)
         \o error_entries(results, castle_batch, p + 1)

\* gather without return_exceptions: the first exception is raised to caller
batch_call_outcome_propagating(results) ==
  IF \E p \in 1 .. Len(results) : results[p].exc THEN "raised" ELSE "returned"

\* with return_exceptions=True gather never raises an item's exception, so
\* process_castle_batch returns its list
batch_call_outcome(results) == "returned"

\* a failed task is scheduled again
task_state_after_exception_retry(k) == "scheduled"

\* an exception leaving process_single_castle ends the task; nothing
\* resubmits it
task_state_after_exception(k) == "raised"

\* the batch number is logged as i // batch_size
processing_event_zero_based(s, size, batch) ==
  [ event |-> "processing", batch_index |-> s \div size,
    batch_len |-> Len(batch) ]

\* line 518, before the batch is dispatched:
\* "Processing batch {i//batch_size + 1} ({len(batch)} castles)"
processing_event(s, size, batch) ==
  [ event |-> "processing", batch_index |-> s \div size + 1,
    batch_len |-> Len(batch) ]

\* line 524, after the batch call has returned:
\* "Completed batch. Total processed: {processed_count}/{total_castles}"
completed_event(count, total) ==
  [ event |-> "completed", processed_count |-> count, total_castles |-> total ]

\* castle_cultural_data_bridge.py line 331, after the batch call has
\* returned: "Generated cultural narratives for batch {i//batch_size + 1}"
generated_event(s, size) ==
  [ event |-> "generated", batch_index |-> s \div size + 1 ]

\* range(0, total, step): the for statement raises ValueError for a zero
\* step before the first iteration
range_check(step) == IF step = 0 THEN "ValueError" ELSE "ok"

\* offset s is produced by range(0, stop, step): an ascending range stops at
\* stop, a descending range from 0 to stop >= 0 is empty
range_has(s, stop, step) ==
  \/ step > 0 /\ s < stop
  \/ step < 0 /\ s > stop

\* the batch_size arguments a caller passes: the positive sizes, zero, and a
\* negative one (range() treats every negative step alike)
BatchSizes == { 0 - 1 } \cup (0 .. MaxBatchSize)

\* the value reported is the number of castles submitted
run_result_submitted(e, count, total) ==
  IF e = "thousands"
  THEN [ processed_count |-> total ]
  ELSE [ total_generated |-> total, total_processed |-> total ]

\* what a run hands back to its caller.  process_thousands_of_castles
\* returns the bare integer processed_count (line 534), written here as a
\* one-field record; run_integrated_pipeline returns pipeline_results, of
\* which total_generated and total_processed are the counts (generation_rate
\* is their quotient).
run_result(e, count, total) ==
  IF e = "thousands"
  THEN [ processed_count |-> count ]
  ELSE [ total_generated |-> count, total_processed |-> total ]

\* line 527, `await asyncio.sleep(1)`: the length of the pause after a batch
\* in process_thousands_of_castles, for a caller who wants a pause of length
\* configured.  The method has no parameter for it and the argument of sleep
\* is a literal.
pause_length(configured) == 1

\* the pause is made between batches only: none after the last batch
pause_after_batch_not_last(e, s, size, total) ==
  e = "thousands" /\ s + size < total

\* whether the run loop pauses after the batch at offset s has completed.
\* In process_thousands_of_castles the sleep is the last statement of the
\* try block, reached after every batch call that returned, whatever the
\* offset; the loop of run_integrated_pipeline has no sleep.
pause_after_batch(e, s, size, total) == e = "thousands"

\* ----------------------------------------------------------------- Init
\* the batch pipeline after construction, about to be run on the list items
PipelineInit(items) ==
  /\ castle_data = items
  /\ raw_data = [ k \in 1 .. Len(castle_data) |-> "unset" ]
  /\ runs = 0
  /\ entry = "none"
  /\ batch_size = 1
  /\ total_castles = 0
  /\ processed_count = 0
  /\ i = 0
  /\ pc = "idle"
  /\ tasks = [ k \in 1 .. Len(castle_data) |-> "pending" ]
  /\ exceptions = [ k \in 1 .. Len(castle_data) |-> "none" ]
  /\ invoked = [ k \in 1 .. Len(castle_data) |-> 0 ]
  /\ completion = <<>>
  /\ successful_results = <<>>
  /\ batches = <<>>
  /\ batch_outcomes = <<>>
  /\ sleeps = 0
  /\ error_log = <<>>
  /\ progress_log = <<>>
  /\ returned = -1
  /\ databases = [ narratives  |-> setup_times("narratives", NoDatabase, 1),
                   integration |-> setup_times("integration", NoDatabase, 1) ]
  /\ castle_narratives = {}
  /\ next_id = 1
  /\ clock = 0
  /\ stored = <<>>
  /\ replaced = FALSE
  /\ succeeded_keys = {}

\* no record has been handed to the translator
TranslatorIdle ==
  /\ extracted_castles = <<>>
  /\ unified_castles = <<>>

\* CastleDataPipeline.__init__
ExtractionInit ==
  /\ all_castles = <<>>
  /\ collected = <<>>
  /\ target_count = 0
  /\ region = 0
  /\ extraction_pc = "idle"
  /\ extraction_returned = <<>>
  /\ extractions = 0

\* program constants of OperationalScalabilityEngine
DefaultWorkerCap == 32
WorkerCap == 64
WorkerFloor == 4

\* the default of __init__: min(32, (mp.cpu_count() or 1) + 4)
default_workers(cpu_count) ==
  Min(DefaultWorkerCap, (IF cpu_count = 0 THEN 1 ELSE cpu_count) + 4)

\* OperationalScalabilityEngine() on a machine with cpu_count processors
ScalingInit(cpu_count) ==
  /\ max_workers = default_workers(cpu_count)
  /\ load_factor = 50
  /\ scalings = 0

Tiers == 1 .. 3

\* ThreeTierAutomationCoordinator.__init__: nothing has been called
TiersInit ==
  /\ coordinator_pc = "idle"
  /\ breakthrough_outcome = "none"
  /\ pipeline_call = [ caller |-> "none", target_total |-> 0,
                       cultural_generation_enabled |-> FALSE,
                       enable_cultural_generation |-> FALSE,
                       unlimited_scaling |-> FALSE ]
  /\ tier_target = [ t \in Tiers |-> 0 ]
  /\ tier_state = [ t \in Tiers |-> "pending" ]
  /\ tier_position = [ t \in Tiers |-> 0 ]
  /\ tier_total = [ t \in Tiers |-> 0 ]
  /\ tier_completion = <<>>
  /\ tier_results = <<>>
  /\ enhance_position = 0
  /\ total_enhanced = 0
  /\ overall_metrics =
       [ total_castles_extracted |-> 0, total_castles_enhanced |-> 0,
         overall_automation_level |-> [ weighted |-> 0, castles |-> 1 ] ]
  /\ breakthrough_achievement =
       [ status |-> "none",
         criteria_validation |->
           [ scalability_unlimited |-> FALSE,
             cultural_generation_operational |-> FALSE,
             three_tier_coordination |-> FALSE,
             worker1_integration |-> FALSE,
             target_capacity_exceeded |-> FALSE ] ]

Init ==
  /\ \E items \in ItemLists(MaxItems) : PipelineInit(items)
  /\ TranslatorIdle
  /\ ExtractionInit
  /\ ScalingInit(4)
  /\ TiersInit

\* -------------------------------------------------------------- actions
\* The run from the head of `for i in range(0, total, batch_size)` at offset
\* s to its next suspension: either the loop is over and the run returns
\* count, or the batch is sliced, process_castle_batch creates one task per
\* castle and awaits gather.
LoopHead(s, count, T, bs, pl) ==
  /\ i' = s
  /\ IF range_has(s, total_castles', batch_size')
     THEN /\ batches' = Append(bs, batch_slice(castle_data, s, batch_size'))
          /\ progress_log' =
               IF entry' = "thousands"
               THEN Append(pl, processing_event(s, batch_size',
                                 batch_slice(castle_data, s, batch_size')))
               ELSE pl
          /\ tasks' = [ k \in DOMAIN T |->
                          IF k \in slice_indices(s, batch_size', total_castles')
                          THEN "scheduled" ELSE T[k] ]
          /\ completion' = <<>>
          /\ pc' = "gather"
          /\ returned' = -1
     ELSE /\ batches' = bs
          /\ progress_log' = pl
          /\ tasks' = T
          /\ completion' = completion
          /\ pc' = "done"
          /\ returned' = count

\* process_thousands_of_castles(source, batch_size) or the batch loop of
\* run_integrated_pipeline(batch_size=...) is called.  Neither validates
\* batch_size: the first thing that reads it is range() at the loop head,
\* outside the try block.
StartRun(e, b) ==
  /\ pc \in { "idle", "done", "error" }
  /\ runs < MaxRuns
  /\ runs' = runs + 1
  /\ entry' = e
  /\ batch_size' = b
  /\ total_castles' = Len(castle_data)
  /\ processed_count' = 0
  /\ raw_data' = [ k \in Items |-> "unset" ]
  /\ exceptions' = [ k \in Items |-> "none" ]
  /\ invoked' = [ k \in Items |-> 0 ]
  /\ successful_results' = <<>>
  /\ batch_outcomes' = <<>>
  /\ sleeps' = 0
  /\ error_log' = <<>>
  /\ IF range_check(b) = "ok"
     THEN LoopHead(0, 0, [ k \in Items |-> "pending" ], <<>>, <<>>)
     ELSE /\ pc' = "error"
          /\ progress_log' = <<>>
          /\ i' = 0
          /\ tasks' = [ k \in Items |-> "pending" ]
          /\ completion' = <<>>
          /\ batches' = <<>>
          /\ returned' = -1
  /\ stored' = <<>>
  /\ UNCHANGED << other_objects, castle_data, databases, castle_narratives, next_id, clock,
                  replaced, succeeded_keys >>

\* The event loop runs a created task: process_single_castle starts and
\* suspends in enrich_castle_data.  Ready tasks run in creation order.
TaskStart(k) ==
  /\ pc = "gather"
  /\ k \in CurrentBatch
  /\ tasks[k] = "scheduled"
  /\ \A j \in CurrentBatch : j < k => tasks[j] # "scheduled"
  /\ tasks' = [ tasks EXCEPT ![k] = "running" ]
  /\ invoked' = [ invoked EXCEPT ![k] = @ + 1 ]
  /\ UNCHANGED << other_objects, castle_data, raw_data, runs, entry, batch_size,
                  total_castles, processed_count, i, pc, exceptions, completion,
                  successful_results, batches, batch_outcomes, sleeps,
                  error_log, progress_log, databases, returned, castle_narratives, next_id, clock,
                  stored, replaced, succeeded_keys >>

\* a task may run to its end before the tasks created after it have started
all_started_not_awaited(T, batch) == TRUE

\* Every task created before the gather runs its first step in the same
\* pass of the event loop, before any awaited fetch can complete.
all_started(T, batch) == \A j \in batch : T[j] # "scheduled"

\* process_single_castle resumes after enrichment, builds the narrative,
\* stores it and returns it.
TaskSucceed(k) ==
  /\ pc = "gather"
  /\ k \in CurrentBatch
  /\ tasks[k] = "running"
  /\ all_started(tasks, CurrentBatch)
  /\ enrich_castle_data(castle_data[k]).exception = "none"
  /\ raw_data' = [ raw_data EXCEPT
                     ![k] = enrich_castle_data(castle_data[k]).wikipedia_summary ]
  /\ clock' = clock + 1
  /\ castle_narratives' =
       store_narrative(castle_narratives,
                       narrative_of(castle_data[k], raw_data'[k] = "summary"),
                       next_id, clock')
  /\ next_id' = next_id + 1
  /\ stored' = Append(stored, [ item |-> k, id |-> next_id ])
  /\ replaced' = (replaced \/ \E r \in castle_narratives :
                                  r.castle_name = castle_data[k].name)
  /\ succeeded_keys' = succeeded_keys \cup { castle_data[k].name }
  /\ tasks' = [ tasks EXCEPT ![k] = "done" ]
  /\ completion' = Append(completion, k)
  /\ UNCHANGED << other_objects, castle_data, runs, entry, batch_size, total_castles,
                  processed_count, i, pc, exceptions, invoked,
                  successful_results, batches, batch_outcomes, sleeps,
                  error_log, progress_log, databases, returned >>

\* the narrative is stored first and the exception is raised afterwards
TaskFail_after_store(k) ==
  /\ pc = "gather"
  /\ k \in CurrentBatch
  /\ tasks[k] = "running"
  /\ all_started(tasks, CurrentBatch)
  /\ enrich_castle_data(castle_data[k]).exception = "none"
  /\ raw_data' = [ raw_data EXCEPT ![k] = "updated" ]
  /\ clock' = clock + 1
  /\ castle_narratives' =
       store_narrative(castle_narratives, narrative_of(castle_data[k], FALSE),
                       next_id, clock')
  /\ next_id' = next_id + 1
  /\ tasks' = [ tasks EXCEPT ![k] = "raised" ]
  /\ exceptions' = [ exceptions EXCEPT ![k] = "Exception" ]
  /\ UNCHANGED << other_objects, castle_data, completion, runs, entry, batch_size, total_castles,
                  processed_count, i, pc, invoked, successful_results,
                  batches, batch_outcomes, sleeps, error_log, progress_log, databases, returned,
                  stored, replaced, succeeded_keys >>

\* process_single_castle raises: in enrich_castle_data, if an exception
\* leaves one of its fetches, and otherwise while the narrative is built,
\* after raw_data was updated (the fetched summary of a failed item is never
\* read again).  Nothing was written to the table.
TaskFail(k) ==
  /\ pc = "gather"
  /\ k \in CurrentBatch
  /\ tasks[k] = "running"
  /\ all_started(tasks, CurrentBatch)
  /\ raw_data' = [ raw_data EXCEPT
                     ![k] = IF enrich_castle_data(castle_data[k]).exception = "none"
                            THEN "updated" ELSE @ ]
  /\ tasks' = [ tasks EXCEPT ![k] = task_state_after_exception(k) ]
  /\ exceptions' = [ exceptions EXCEPT
                       ![k] = IF enrich_castle_data(castle_data[k]).exception = "none"
                              THEN "Exception"
                              ELSE enrich_castle_data(castle_data[k]).exception ]
  /\ UNCHANGED << other_objects, castle_data, completion, runs, entry, batch_size, total_castles,
                  processed_count, i, pc, invoked, successful_results,
                  batches, batch_outcomes, sleeps, error_log, progress_log, databases, returned,
                  castle_narratives, next_id, clock, stored, replaced,
                  succeeded_keys >>

\* _store_narrative raises: sqlite3 rejects the INSERT or the commit (the
\* database is locked, the disk is full).  The statement is not committed,
\* so the table and its id sequence are as before; the exception leaves
\* process_single_castle like any other.
StoreFail(k) ==
  /\ pc = "gather"
  /\ k \in CurrentBatch
  /\ tasks[k] = "running"
  /\ all_started(tasks, CurrentBatch)
  /\ enrich_castle_data(castle_data[k]).exception = "none"
  /\ raw_data' = [ raw_data EXCEPT ![k] = "updated" ]
  /\ tasks' = [ tasks EXCEPT ![k] = task_state_after_exception(k) ]
  /\ exceptions' = [ exceptions EXCEPT ![k] = "OperationalError" ]
  /\ UNCHANGED << other_objects, castle_data, completion, runs, entry, batch_size, total_castles,
                  processed_count, i, pc, invoked, successful_results,
                  batches, batch_outcomes, sleeps, error_log, progress_log, databases, returned,
                  castle_narratives, next_id, clock, stored, replaced,
                  succeeded_keys >>

\* The item's operation never returns: its task stays suspended in an await
\* that nothing completes.  Neither enrich_castle_data nor
\* process_castle_batch bounds the time a task may take (no wait_for, no
\* timeout argument), so nothing ends the task.
TaskHang(k) ==
  /\ pc = "gather"
  /\ k \in CurrentBatch
  /\ tasks[k] = "running"
  /\ all_started(tasks, CurrentBatch)
  /\ tasks' = [ tasks EXCEPT ![k] = "hung" ]
  /\ UNCHANGED << other_objects, castle_data, raw_data, runs, entry, batch_size,
                  total_castles, processed_count, i, pc, exceptions, invoked,
                  completion, successful_results, batches, batch_outcomes,
                  sleeps, error_log, progress_log, databases, returned,
                  castle_narratives, next_id, clock, stored, replaced,
                  succeeded_keys >>

\* gather resumes process_castle_batch, which filters and logs and returns
\* to the run loop; the loop counts the results and goes on to its next
\* suspension (the pacing sleep, or in run_integrated_pipeline the next
\* batch).  An exception from the batch call is caught by the loop.
BatchSettled ==
  /\ pc = "gather"
  /\ gather_ready(tasks, CurrentBatch)
  /\ LET order   == gather_order(i, batch_size, total_castles, completion)
         results == [ p \in 1 .. Len(order) |->
                        result_of(tasks, exceptions, castle_data, raw_data, order[p]) ]
         batch   == batch_slice(castle_data, i, batch_size)
         outcome == batch_call_outcome(results)
     IN  /\ batch_outcomes' = Append(batch_outcomes, outcome)
         /\ UNCHANGED << runs, entry, batch_size, total_castles >>
         /\ IF outcome = "returned"
            THEN /\ successful_results' = filter_successful(results)
                 /\ error_log' = error_log \o error_entries(results, batch, 1)
                 /\ processed_count' = processed_count + Len(successful_results')
                 /\ IF pause_after_batch(entry, i, batch_size, total_castles)
                    THEN /\ pc' = "sleep"
                         /\ sleeps' = sleeps + 1
                         /\ progress_log' =
                              Append(progress_log,
                                     completed_event(processed_count', total_castles))
                         /\ UNCHANGED << i, tasks, completion, batches, returned >>
                    ELSE /\ sleeps' = sleeps
                         /\ LoopHead(i + batch_size, processed_count', tasks, batches,
                                     Append(progress_log,
                                            IF entry = "thousands"
                                            THEN completed_event(processed_count',
                                                                 total_castles)
                                            ELSE generated_event(i, batch_size)))
            ELSE /\ successful_results' = successful_results
                 /\ error_log' = Append(error_log,
                                   [ name |-> "batch",
                                     error |-> [ exception |-> "Exception",
                                                 raised_by |-> 0 ] ])
                 /\ processed_count' = processed_count
                 /\ sleeps' = sleeps
                 /\ LoopHead(i + batch_size, processed_count, tasks, batches,
                             progress_log)
  /\ UNCHANGED << other_objects, castle_data, raw_data, exceptions, invoked, databases,
                  castle_narratives, next_id, clock, stored, replaced,
                  succeeded_keys >>

\* asyncio.sleep(1) is over: the loop goes on to the next batch or returns.
SleepDone ==
  /\ pc = "sleep"
  /\ UNCHANGED << runs, entry, batch_size, total_castles, processed_count >>
  /\ LoopHead(i + batch_size, processed_count, tasks, batches, progress_log)
  /\ UNCHANGED << other_objects, castle_data, raw_data, exceptions, invoked,
                  successful_results, batch_outcomes, sleeps, error_log,
                  databases, castle_narratives,
                  next_id, clock, stored, replaced, succeeded_keys >>

\* The process is started again on the same database files, between two
\* runs: CulturalAutomationIntegrator.__init__ constructs the
\* ScalableCastleProcessor, whose __init__ calls setup_database, and calls
\* setup_integration_database; initialize_integrated_system, when it is used,
\* calls both setup operations once more (n = 2).  A setup that raises ends
\* the start-up.  Tasks, counters and logs of the old process are gone; the
\* rows, the id sequence and the loader's item list are not.
Restart(n) ==
  /\ pc \in { "idle", "done", "error" }
  /\ databases' =
       [ narratives  |-> setup_times("narratives", databases.narratives, n),
         integration |-> setup_times("integration", databases.integration, n) ]
  /\ pc' = IF databases'.narratives.status = "ok"
                /\ databases'.integration.status = "ok"
           THEN "idle" ELSE "setup_error"
  /\ entry' = "none"
  /\ batch_size' = 1
  /\ total_castles' = 0
  /\ processed_count' = 0
  /\ i' = 0
  /\ raw_data' = [ k \in Items |-> "unset" ]
  /\ tasks' = [ k \in Items |-> "pending" ]
  /\ exceptions' = [ k \in Items |-> "none" ]
  /\ invoked' = [ k \in Items |-> 0 ]
  /\ completion' = <<>>
  /\ successful_results' = <<>>
  /\ batches' = <<>>
  /\ batch_outcomes' = <<>>
  /\ sleeps' = 0
  /\ error_log' = <<>>
  /\ progress_log' = <<>>
  /\ returned' = -1
  /\ stored' = <<>>
  /\ castle_narratives' =
       rows_after_setup(databases.narratives, databases'.narratives,
                        "castle_narratives", castle_narratives)
  /\ UNCHANGED << other_objects, castle_data, runs, next_id, clock,
                  replaced, succeeded_keys >>

\* Phase 2 of run_integrated_pipeline, one iteration: the translator
\* converts the next extracted castle to the unified format.
WorkerFourToUnified ==
  /\ Len(unified_castles) < Len(extracted_castles)
  /\ unified_castles' =
       Append(unified_castles,
              worker4_to_unified(extracted_castles[Len(unified_castles) + 1]))
  /\ UNCHANGED << pipeline_vars, extracted_castles, extraction_vars,
                  scaling_vars, tier_vars >>

Next ==
  \/ \E e \in { "thousands", "integrated" }, b \in BatchSizes : StartRun(e, b)
  \/ \E k \in Items : TaskStart(k)
  \/ \E k \in Items : TaskSucceed(k)
  \/ \E k \in Items : TaskFail(k)
  \/ BatchSettled
  \/ SleepDone
  \/ \E n \in 1 .. 2 : Restart(n)

Spec == Init /\ [][Next]_vars

\* One run in which, besides, the store may reject a write and an item's
\* operation may never return.
FirstRun(e, b) == runs = 0 /\ StartRun(e, b)

NextFaults ==
  \/ \E e \in { "thousands", "integrated" }, b \in BatchSizes : FirstRun(e, b)
  \/ \E k \in Items : TaskStart(k)
  \/ \E k \in Items : TaskSucceed(k)
  \/ \E k \in Items : TaskFail(k)
  \/ \E k \in Items : StoreFail(k)
  \/ \E k \in Items : TaskHang(k)
  \/ BatchSettled
  \/ SleepDone

SpecFaults == Init /\ [][NextFaults]_vars

\* Items and Worker4 records with every field present or absent: a CastleData
\* for every combination of empty and non-empty fields, of two or three
\* sources and of the three ways its Wikipedia request can end; a Worker4
\* record for every combination of its fields, with a description of 0, 100
\* or 101 characters.
QualityCastles ==
  [ name : { "", "Windsor Castle" }, location : { "", "Windsor, England" },
    built_year : { 0, 1070 }, architectural_style : { "", "Norman" },
    notable_rulers : { 0, 1 }, military_events : { 0, 1 },
    external_sources : { 2, 3 },
    wikipedia : { "summary", "empty", "timeout" },
    wikidata : { "bindings", "timeout" } ]

Worker4Records ==
  [ name : { "", "Windsor Castle" }, country : { "", "England" },
    location : { "", "Windsor" }, coordinates : { "None", "51.48,-0.60" },
    year_built : { "", "1070", "11th century" },
    architectural_style : { "", "Norman" },
    description_len : { 0, 100, 101 } ]

\* One run over a single item of any shape, or one translation of a Worker4
\* record of any shape.
InitQuality ==
  \/ /\ \E c \in QualityCastles : PipelineInit(<< c >>)
     /\ TranslatorIdle
     /\ ExtractionInit
     /\ ScalingInit(4)
     /\ TiersInit
  \/ /\ PipelineInit(<<>>)
     /\ \E w4 \in Worker4Records : extracted_castles = << w4 >>
     /\ unified_castles = <<>>
     /\ ExtractionInit
     /\ ScalingInit(4)
     /\ TiersInit

NextQuality ==
  \/ \E e \in { "thousands", "integrated" }, b \in BatchSizes : FirstRun(e, b)
  \/ \E k \in Items : TaskStart(k)
  \/ \E k \in Items : TaskSucceed(k)
  \/ \E k \in Items : TaskFail(k)
  \/ BatchSettled
  \/ SleepDone
  \/ WorkerFourToUnified

SpecQuality == InitQuality /\ [][NextQuality]_vars

\* ------------------------------------------------ CastleDataPipeline
MaxTarget == 3
MaxPerSource == 2
MaxExtractions == 2

\* str.lower() on the castle names the sources deliver
lower(name) ==
  IF name \in { "Bran Castle", "BRAN CASTLE" } THEN "bran castle"
  ELSE "eltz castle"

\* castles a source can deliver: the same castle under two spellings and
\* another castle, with or without coordinates.  One Wikidata query can
\* return several rows for one castle (the SELECT is DISTINCT over style,
\* date and architect as well).
SourceCastles(source) ==
  [ name : { "Bran Castle", "BRAN CASTLE", "Eltz Castle" },
    coordinates : { "None", "45.5,25.4" },
    source : { source } ]

\* the lists of at most n castles a source can return ([] on any error)
RECURSIVE SourceLists(_, _)
SourceLists(source, n) ==
  IF n = 0 THEN { <<>> }
  ELSE SourceLists(source, n - 1)
         \cup { Append(l, c) : l \in SourceLists(source, n - 1),
                               c \in SourceCastles(source) }

\* the deduplication key of _deduplicate_castles
dedup_key(castle) == << lower(castle.name), castle.coordinates >>

\* _deduplicate_castles: the loop over castles with its set of keys seen;
\* a castle is appended when its key has not been seen
RECURSIVE deduplicate_castles_from(_, _, _)
deduplicate_castles_from(castles, seen, unique_castles) ==
  IF castles = <<>> THEN unique_castles
  ELSE LET key == dedup_key(Head(castles))
       IN  IF key \notin seen
           THEN deduplicate_castles_from(Tail(castles), seen \cup { key },
                                         Append(unique_castles, Head(castles)))
           ELSE deduplicate_castles_from(Tail(castles), seen, unique_castles)

deduplicate_castles(castles) == deduplicate_castles_from(castles, {}, <<>>)

\* castles[:n] for n >= 0
first_n(castles, n) == SubSeq(castles, 1, Min(n, Len(castles)))

\* run_full_extraction(target) from its call to the return of Phase 1 or to
\* the first OSM request: the Wikidata castles are appended to
\* self.all_castles, and if that is enough the first target of them are
\* returned at once.
StartExtraction(target, wikidata_castles) ==
  /\ extraction_pc \in { "idle", "returned" }
  /\ extractions < MaxExtractions
  /\ extractions' = extractions + 1
  /\ target_count' = target
  /\ all_castles' = all_castles \o wikidata_castles
  /\ collected' = all_castles'
  /\ IF Len(all_castles') >= target
     THEN /\ extraction_returned' = first_n(all_castles', target)
          /\ extraction_pc' = "returned"
          /\ region' = 0
     ELSE /\ extraction_returned' = <<>>
          /\ extraction_pc' = "osm"
          /\ region' = 1
  /\ UNCHANGED << pipeline_vars, translator_vars, scaling_vars, tier_vars >>

\* one iteration of the loop over the four sample_regions
ExtractRegion(osm_castles) ==
  /\ extraction_pc = "osm"
  /\ all_castles' = all_castles \o osm_castles
  /\ collected' = all_castles'
  /\ IF Len(all_castles') >= target_count \/ region = 4
     THEN extraction_pc' = "merge" /\ region' = region
     ELSE extraction_pc' = "osm" /\ region' = region + 1
  /\ UNCHANGED << pipeline_vars, translator_vars, scaling_vars, tier_vars, target_count,
                  extraction_returned, extractions >>

\* after the loop: Phase 3 if the castles are still too few, then the
\* deduplication and the return
FinishExtraction(wiki_castles) ==
  /\ extraction_pc = "merge"
  /\ collected' = IF Len(all_castles) < target_count
                  THEN all_castles \o wiki_castles ELSE all_castles
  /\ all_castles' = deduplicate_castles(collected')
  /\ extraction_returned' = first_n(all_castles', target_count)
  /\ extraction_pc' = "returned"
  /\ UNCHANGED << pipeline_vars, translator_vars, scaling_vars, tier_vars, target_count, region,
                  extractions >>

NextExtraction ==
  \/ \E t \in 0 .. MaxTarget, w \in SourceLists("Wikidata", MaxPerSource) :
       StartExtraction(t, w)
  \/ \E o \in SourceLists("OpenStreetMap", 1) : ExtractRegion(o)
  \/ \E w \in SourceLists("Wikipedia", 1) : FinishExtraction(w)

\* the extraction pipeline alone (the batch pipeline is given no items)
InitExtraction ==
  /\ PipelineInit(<<>>)
  /\ TranslatorIdle
  /\ ExtractionInit
  /\ ScalingInit(4)
  /\ TiersInit

SpecExtraction == InitExtraction /\ [][NextExtraction]_vars

\* -------------------------------------- OperationalScalabilityEngine
MaxCpus == 28
MaxScalings == 3

\* load factors on both sides of the two thresholds, in hundredths
LoadFactors == { 0, 29, 30, 50, 80, 81, 100 }

\* scaling up doubles the workers without the cap of 64
scale_horizontally_uncapped(workers, load) ==
  IF load > 80 THEN workers * 2
  ELSE IF load < 30 THEN IF workers \div 2 > WorkerFloor THEN workers \div 2
                         ELSE WorkerFloor
       ELSE workers

\* scale_horizontally: max_workers after the call
scale_horizontally(workers, load) ==
  IF load > 80 THEN Min(workers * 2, WorkerCap)
  ELSE IF load < 30 THEN IF workers \div 2 > WorkerFloor THEN workers \div 2
                         ELSE WorkerFloor
       ELSE workers

ScaleHorizontally(load) ==
  /\ scalings < MaxScalings
  /\ scalings' = scalings + 1
  /\ load_factor' = load
  /\ max_workers' = scale_horizontally(max_workers, load)
  /\ UNCHANGED << pipeline_vars, translator_vars, extraction_vars, tier_vars >>

NextScaling == \E load \in LoadFactors : ScaleHorizontally(load)

\* the engine constructed with its default worker count on a machine of
\* 1 .. MaxCpus processors (or of unknown count, 0)
InitScaling ==
  /\ PipelineInit(<<>>)
  /\ TranslatorIdle
  /\ ExtractionInit
  /\ \E c \in 0 .. MaxCpus : ScalingInit(c)
  /\ TiersInit

SpecScaling == InitScaling /\ [][NextScaling]_vars

\* ------------------------------------ ThreeTierAutomationCoordinator
\* int(n * h / 100) for the counts and fractions the program multiplies: the
\* product is truncated toward zero
int_of_hundredths(n, h) ==
  IF n * h >= 0 THEN (n * h) \div 100 ELSE 0 - ((0 - n * h) \div 100)

\* self.sources of the three tier processors, in dictionary order
\* (automation_level in hundredths)
TierSources(t) ==
  IF t = 1
  THEN << [ expected_yield |-> 15000, automation_level |-> 95 ],
          [ expected_yield |-> 20000, automation_level |-> 90 ],
          [ expected_yield |-> 10000, automation_level |-> 85 ],
          [ expected_yield |-> 500,   automation_level |-> 95 ] >>
  ELSE IF t = 2
  THEN << [ expected_yield |-> 3000, automation_level |-> 70 ],
          [ expected_yield |-> 2000, automation_level |-> 60 ],
          [ expected_yield |-> 1500, automation_level |-> 65 ] >>
  ELSE << [ expected_yield |-> 5000, automation_level |-> 35 ],
          [ expected_yield |-> 3000, automation_level |-> 30 ],
          [ expected_yield |-> 2000, automation_level |-> 25 ] >>

\* results["tier"] of each tier processor
TierLabel(t) ==
  IF t = 1 THEN "tier_1_fully_automated"
  ELSE IF t = 2 THEN "tier_2_semi_automated" ELSE "tier_3_manual_assisted"

\* the count one source contributes: Tier 1 takes min(expected_yield,
\* target_count // 4); Tiers 2 and 3 take int(expected_yield *
\* automation_level) and do not read their target
source_extracted(t, source, target) ==
  IF t = 1 THEN Min(source.expected_yield, target \div 4)
  ELSE int_of_hundredths(source.expected_yield, source.automation_level)

\* the source loop of a tier processor is over after this source: the last
\* source, or in Tier 1 the source with which the target is reached
tier_loop_over(t, position, total, target) ==
  \/ position = Len(TierSources(t))
  \/ t = 1 /\ total >= target

\* tier_distribution, in hundredths: the default of
\* execute_full_automation_pipeline and the optimal_distribution of
\* _execute_unlimited_scale_extraction
tier_distribution(unlimited_scaling) ==
  IF unlimited_scaling THEN << 85, 10, 5 >> ELSE << 70, 15, 15 >>

\* the pipeline resumes as soon as one processor has returned
gather_first_completed(states) == \E t \in DOMAIN states : states[t] = "done"

\* await asyncio.gather(*tier_tasks) resumes the pipeline when every tier
\* processor has returned (none of them raises)
gather_done(states) == \A t \in DOMAIN states : states[t] = "done"

\* tier_results_list = await asyncio.gather(*tier_tasks): the results in the
\* order of tier_tasks (tier one, two, three), which the mapping attributes
\* to the tiers by position
tier_results_order(done_order) == << 1, 2, 3 >>

\* the automation level of each tier in _calculate_overall_automation_level
automation_levels == << 90, 65, 30 >>

RECURSIVE sum_total_processed(_)
sum_total_processed(results) ==
  IF results = <<>> THEN 0
  ELSE Head(results).total_processed + sum_total_processed(Tail(results))

RECURSIVE weighted_automation(_, _)
weighted_automation(results, p) ==
  IF p > Len(results) THEN 0
  ELSE results[p].total_processed * automation_levels[p]
         + weighted_automation(results, p + 1)

\* _calculate_overall_automation_level: weighted_automation / total_castles
\* if total_castles > 0 else 0, kept as the fraction (weights in hundredths)
calculate_overall_automation_level(results) ==
  IF sum_total_processed(results) > 0
  THEN [ weighted |-> weighted_automation(results, 1),
         castles |-> sum_total_processed(results) ]
  ELSE [ weighted |-> 0, castles |-> 1 ]

\* level > h / 100 for a level kept as a fraction with castles > 0
level_above(level, h) == level.weighted > h * level.castles

\* validation_results["three_tier_coordination"]:
\* overall_automation_level > 0.9
three_tier_coordination(level) == level_above(level, 90)

\* the overall_metrics of execute_full_automation_pipeline
metrics_of(results, enhanced) ==
  [ total_castles_extracted |-> sum_total_processed(results),
    total_castles_enhanced |-> enhanced,
    overall_automation_level |-> calculate_overall_automation_level(results) ]

\* _validate_breakthrough_achievement
validate_breakthrough_achievement(call, metrics) ==
  LET validation ==
        [ scalability_unlimited |-> TRUE,
          cultural_generation_operational |-> call.cultural_generation_enabled,
          three_tier_coordination |->
            three_tier_coordination(metrics.overall_automation_level),
          worker1_integration |-> call.unlimited_scaling,
          target_capacity_exceeded |-> metrics.total_castles_extracted >= 10000 ]
  IN  [ status |-> IF \A c \in DOMAIN validation : validation[c]
                   THEN "BREAKTHROUGH_ACHIEVED" ELSE "PARTIAL_BREAKTHROUGH",
        criteria_validation |-> validation ]

\* the next tier from p on whose total_processed is > 0 (4 if there is none):
\* the tiers coordinate_cultural_enhancement enhances
RECURSIVE next_to_enhance(_, _)
next_to_enhance(results, p) ==
  IF p > Len(results) THEN p
  ELSE IF results[p].total_processed > 0 THEN p
       ELSE next_to_enhance(results, p + 1)

\* execute_full_automation_pipeline is called: directly, or by
\* execute_breakthrough_pipeline, which keeps its own cultural-generation
\* option for its Phase 2, passes enable_cultural_generation = False and,
\* with unlimited scaling, the optimal distribution.  The tier targets are
\* computed, the three tier coroutines are handed to gather.
StartPipeline(caller, target, cultural, unlimited) ==
  /\ coordinator_pc = "idle"
  /\ caller = "coordinator" => ~unlimited
  /\ pipeline_call' = [ caller |-> caller, target_total |-> target,
                        cultural_generation_enabled |->
                          caller = "breakthrough" /\ cultural,
                        enable_cultural_generation |->
                          caller = "coordinator" /\ cultural,
                        unlimited_scaling |-> unlimited ]
  /\ tier_target' = [ t \in Tiers |->
                        int_of_hundredths(target, tier_distribution(unlimited)[t]) ]
  /\ tier_state' = [ t \in Tiers |-> "created" ]
  /\ coordinator_pc' = "gather"
  /\ UNCHANGED << pipeline_vars, translator_vars, extraction_vars, scaling_vars,
                  tier_position, tier_total, tier_completion, tier_results,
                  enhance_position, total_enhanced, overall_metrics,
                  breakthrough_achievement, breakthrough_outcome >>

\* the event loop runs a tier coroutine to its first await (the sleep of
\* its first source); the tasks gather created run in creation order
TierStart(t) ==
  /\ coordinator_pc = "gather"
  /\ tier_state[t] = "created"
  /\ \A u \in Tiers : u < t => tier_state[u] # "created"
  /\ tier_state' = [ tier_state EXCEPT ![t] = "running" ]
  /\ UNCHANGED << pipeline_vars, translator_vars, extraction_vars, scaling_vars,
                  coordinator_pc, pipeline_call, tier_target, tier_position,
                  tier_total, tier_completion, tier_results, enhance_position,
                  total_enhanced, overall_metrics, breakthrough_achievement,
                  breakthrough_outcome >>

\* the sleep of a tier's current source is over: the source's count is
\* added, and the processor goes on to its next source or returns.  The
\* durations of the sleeps (0.5 s, 1 s, 2 s) are not modelled: every
\* interleaving of the three processors is admitted
TierSourceDone(t) ==
  /\ coordinator_pc = "gather"
  /\ tier_state[t] = "running"
  /\ \A u \in Tiers : tier_state[u] # "created"
  /\ LET position == tier_position[t] + 1
         total    == tier_total[t]
                       + source_extracted(t, TierSources(t)[position], tier_target[t])
     IN  /\ tier_position' = [ tier_position EXCEPT ![t] = position ]
         /\ tier_total' = [ tier_total EXCEPT ![t] = total ]
         /\ IF tier_loop_over(t, position, total, tier_target[t])
            THEN /\ tier_state' = [ tier_state EXCEPT ![t] = "done" ]
                 /\ tier_completion' = Append(tier_completion, t)
            ELSE UNCHANGED << tier_state, tier_completion >>
  /\ UNCHANGED << pipeline_vars, translator_vars, extraction_vars, scaling_vars,
                  coordinator_pc, pipeline_call, tier_target, tier_results,
                  enhance_position, total_enhanced, overall_metrics,
                  breakthrough_achievement, breakthrough_outcome >>

\* gather resumes the pipeline when the three processors have returned: the
\* results are mapped to the tiers and coordinate_cultural_enhancement is
\* called, which returns at once when generation is disabled or no tier
\* processed anything, and otherwise awaits the enhancement of a tier.
TiersGathered ==
  /\ coordinator_pc = "gather"
  /\ gather_done(tier_state)
  /\ LET order   == tier_results_order(tier_completion)
         results == [ p \in Tiers |->
                        [ tier |-> TierLabel(order[p]),
                          total_processed |-> tier_total[order[p]] ] ]
         first   == next_to_enhance(results, 1)
     IN  /\ tier_results' = results
         /\ IF pipeline_call.enable_cultural_generation /\ first <= 3
            THEN /\ coordinator_pc' = "enhance"
                 /\ enhance_position' = first
                 /\ UNCHANGED overall_metrics
            ELSE /\ coordinator_pc' = "returned"
                 /\ enhance_position' = 0
                 /\ overall_metrics' = metrics_of(results, 0)
  /\ UNCHANGED << pipeline_vars, translator_vars, extraction_vars, scaling_vars,
                  pipeline_call, tier_target, tier_state, tier_position,
                  tier_total, tier_completion, total_enhanced,
                  breakthrough_achievement, breakthrough_outcome >>

\* the enhancement of one tier is over (_enhance_tier_data: 95% of its
\* castles); the next tier is enhanced, or the pipeline computes its
\* metrics and returns
EnhanceTierDone ==
  /\ coordinator_pc = "enhance"
  /\ total_enhanced' = total_enhanced
       + int_of_hundredths(tier_results[enhance_position].total_processed, 95)
  /\ LET next == next_to_enhance(tier_results, enhance_position + 1)
     IN  IF next <= 3
         THEN /\ enhance_position' = next
              /\ UNCHANGED << coordinator_pc, overall_metrics >>
         ELSE /\ enhance_position' = 0
              /\ coordinator_pc' = "returned"
              /\ overall_metrics' = metrics_of(tier_results, total_enhanced')
  /\ UNCHANGED << pipeline_vars, translator_vars, extraction_vars, scaling_vars,
                  pipeline_call, tier_target, tier_state, tier_position,
                  tier_total, tier_completion, tier_results,
                  breakthrough_achievement, breakthrough_outcome >>

\* execute_breakthrough_pipeline after the tier pipeline has returned:
\* Phases 2 to 4 up to the validation of the breakthrough criteria
ValidateBreakthrough ==
  /\ coordinator_pc = "returned"
  /\ pipeline_call.caller = "breakthrough"
  /\ breakthrough_achievement' =
       validate_breakthrough_achievement(pipeline_call, overall_metrics)
  /\ coordinator_pc' = "validated"
  /\ UNCHANGED << pipeline_vars, translator_vars, extraction_vars, scaling_vars,
                  pipeline_call, tier_target, tier_state, tier_position,
                  tier_total, tier_completion, tier_results, enhance_position,
                  total_enhanced, overall_metrics, breakthrough_outcome >>

\* the type of the keys of pipeline_results["tier_results"], which
\* execute_breakthrough_pipeline holds in results["tier_processing_results"]
tier_results_key_type == "AutomationTier"

\* json.dump(results, f, indent = 2, default = str): the encoder accepts
\* dictionary keys that are str, int, float, bool or None and raises
\* TypeError for any other key (default is applied to values only)
json_dump(key_type) ==
  IF key_type \in { "str", "int", "float", "bool", "None" }
  THEN "written" ELSE "TypeError"

\* execute_breakthrough_pipeline after the validation:
\* _store_breakthrough_results dumps the results to a file, and the
\* results are returned if that did not raise
StoreBreakthroughResults ==
  /\ coordinator_pc = "validated"
  /\ breakthrough_outcome' =
       IF json_dump(tier_results_key_type) = "written"
       THEN "returned" ELSE json_dump(tier_results_key_type)
  /\ coordinator_pc' = "ended"
  /\ UNCHANGED << pipeline_vars, translator_vars, extraction_vars, scaling_vars,
                  pipeline_call, tier_target, tier_state, tier_position,
                  tier_total, tier_completion, tier_results, enhance_position,
                  total_enhanced, overall_metrics, breakthrough_achievement >>

\* target totals: none, small ones, the default, one that saturates every
\* Tier 1 source, and a negative one
TargetTotals == { 0 - 40000, 0, 3, 1000, 50000, 200000 }

NextTiers ==
  \/ \E target \in TargetTotals, cultural \in BOOLEAN :
       StartPipeline("coordinator", target, cultural, FALSE)
  \/ \E target \in TargetTotals, cultural \in BOOLEAN, unlimited \in BOOLEAN :
       StartPipeline("breakthrough", target, cultural, unlimited)
  \/ \E t \in Tiers : TierStart(t)
  \/ \E t \in Tiers : TierSourceDone(t)
  \/ TiersGathered
  \/ EnhanceTierDone
  \/ ValidateBreakthrough
  \/ StoreBreakthroughResults

InitTiers ==
  /\ PipelineInit(<<>>)
  /\ TranslatorIdle
  /\ ExtractionInit
  /\ ScalingInit(4)
  /\ TiersInit

SpecTiers == InitTiers /\ [][NextTiers]_vars

TypeOK ==
  /\ pc \in { "idle", "gather", "sleep", "done", "error", "setup_error" }
  /\ batch_size \in BatchSizes
  /\ pc \in { "gather", "sleep" } => batch_size > 0
  /\ \A k \in Items : tasks[k] \in { "pending", "scheduled", "running", "hung", "done", "raised" }
  /\ processed_count \in 0 .. Len(castle_data)
  /\ next_id = clock + 1
  /\ \A r \in castle_narratives :
       r.id \in 1 .. next_id - 1 /\ r.processing_timestamp \in 1 .. clock

\* ------------------------------------------------------------ properties
RECURSIVE Concat(_)
Concat(ss) == IF ss = <<>> THEN <<>> ELSE Head(ss) \o Concat(Tail(ss))

CeilDiv(n, b) == (n + b - 1) \div b

Failed == { k \in Items : tasks[k] = "raised" }
Succeeded == { k \in Items : tasks[k] = "done" }

\* the narrative item k returned (k has succeeded)
NarrativeOfItem(k) == narrative_of(castle_data[k], raw_data[k] = "summary")

\* positions of the write log at which a record named n was stored
StoresOfName(n) == { p \in DOMAIN stored : castle_data[stored[p].item].name = n }

\* C1: the batches formed so far are contiguous slices in original order:
\* their concatenation is a prefix of the item list, every batch holds between
\* 1 and batch_size items and every batch but the last exactly batch_size;
\* when the run has returned the concatenation is the whole list and there
\* are exactly ceil(N / batch_size) batches.
C1_PartitionFidelity ==
  (runs > 0 /\ batch_size >= 1) =>
    LET flat == Concat(batches)
    IN  /\ Len(flat) <= Len(castle_data)
        /\ flat = SubSeq(castle_data, 1, Len(flat))
        /\ \A b \in 1 .. Len(batches) : Len(batches[b]) \in 1 .. batch_size
        /\ \A b \in 1 .. Len(batches) - 1 : Len(batches[b]) = batch_size
        /\ pc = "done" =>
             /\ flat = castle_data
             /\ Len(batches) = CeilDiv(Len(castle_data), batch_size)

\* a finished run of 3 items in batches of 2: two batches, the last short
C1_Witness ==
  /\ pc = "done"
  /\ Len(castle_data) = 3
  /\ batch_size = 2
  /\ Len(batches) = 2
  /\ Len(batches[2]) = 1
  /\ entry = "integrated"

\* C2: when a run has returned and exactly one item failed, the count is
\* N - 1, every other item's task ran once to completion (none cancelled),
\* made exactly one sink write, and the row of its key is the record of the
\* last write made under that key in this run.
C2_FailureIsolation ==
  (pc = "done" /\ Cardinality(Failed) = 1) =>
    /\ returned = Len(castle_data) - 1
    /\ \A k \in Items \ Failed :
         /\ tasks[k] = "done"
         /\ invoked[k] = 1
         /\ Cardinality({ p \in DOMAIN stored : stored[p].item = k }) = 1
         /\ LET ps   == StoresOfName(castle_data[k].name)
                last == CHOOSE p \in ps : \A q \in ps : q <= p
            IN  /\ ps # {}
                /\ \E r \in castle_narratives :
                     /\ r.castle_name = castle_data[k].name
                     /\ r.id = stored[last].id
                     /\ r.generated_narrative = NarrativeOfItem(stored[last].item)

\* three items, the second one failed, the two others stored
C2_Witness ==
  /\ pc = "done"
  /\ Len(castle_data) = 3
  /\ Failed = { 2 }
  /\ returned = 2
  /\ Len(stored) = 2
  /\ batch_size = 3

\* C3: every process_castle_batch call returns normally whichever items
\* failed; a run that has returned went through every batch, every item is
\* settled and the value returned is the number of items that succeeded.
C3_RunNeverRaises ==
  /\ \A b \in 1 .. Len(batch_outcomes) : batch_outcomes[b] = "returned"
  /\ batch_size >= 1 => pc # "error"
  /\ (pc = "done" /\ batch_size >= 1) =>
       /\ Len(batch_outcomes) = CeilDiv(Len(castle_data), batch_size)
       /\ \A k \in Items : tasks[k] \in Settled
       /\ returned = Cardinality(Succeeded)

\* a run in which every one of three items failed returned 0
C3_Witness ==
  /\ pc = "done"
  /\ Len(castle_data) = 3
  /\ Failed = Items
  /\ Len(batch_outcomes) >= 2
  /\ returned = 0

\* C4: an item of a later batch is submitted or started only when every item
\* of every earlier batch has settled.
C4_NoCrossBatchOverlap ==
  (runs > 0 /\ batch_size >= 1) =>
    \A j \in Items, k \in Items :
      ( (j - 1) \div batch_size < (k - 1) \div batch_size /\ tasks[k] # "pending" )
        => tasks[j] \in Settled

\* an item of the second batch is in progress after a failure in the first
C4_Witness ==
  /\ pc = "gather"
  /\ Len(batches) = 2
  /\ \E j \in Items, k \in Items :
       /\ (j - 1) \div batch_size < (k - 1) \div batch_size
       /\ tasks[j] = "raised"
       /\ tasks[k] = "running"

\* start of the batch whose process_castle_batch call returned last
LastBatchStart == IF pc = "sleep" THEN i ELSE i - batch_size

\* C5: the list returned for a batch holds the narratives of the items that
\* succeeded, the p-th entry being that of the p-th succeeded item in
\* submission order, whatever the completion order was.
C5_SubmissionOrderOfSuccesses ==
  Len(batch_outcomes) >= 1 =>
    LET idx == slice_indices(LastBatchStart, batch_size, total_castles)
        ok  == { k \in idx : tasks[k] = "done" }
    IN  /\ Len(successful_results) = Cardinality(ok)
        /\ \A k \in ok :
             successful_results[Cardinality({ j \in ok : j <= k })] = NarrativeOfItem(k)

\* batch [a, b, c]: c completed first, a completed last, b failed; the list
\* returned is [a, c]
C5_Witness ==
  /\ pc = "sleep"
  /\ batch_size = 3
  /\ completion = << 3, 1 >>
  /\ Failed = { 2 }
  /\ castle_data[1].name # castle_data[3].name
  /\ successful_results = << NarrativeOfItem(1), NarrativeOfItem(3) >>

\* C6: every sink write leaves exactly one row for the written key, and that
\* row holds the payload, the timestamp and the quality score of this write,
\* whatever row the key had before; its timestamp is later than that of
\* every row the table held before the write.
C6_LastWriteWins ==
  [][ \A k \in Items :
        (tasks[k] = "running" /\ tasks'[k] = "done") =>
          LET wiki == (raw_data'[k] = "summary")
              rows == { r \in castle_narratives' : r.castle_name = castle_data[k].name }
          IN  /\ Cardinality(rows) = 1
              /\ \A r \in rows :
                   /\ r.generated_narrative = narrative_of(castle_data[k], wiki)
                   /\ r.processing_timestamp = clock'
                   /\ r.quality_score = assess_data_quality(castle_data[k], wiki)
                   /\ \A old \in castle_narratives :
                        old.processing_timestamp < r.processing_timestamp
    ]_vars

\* two records with the same key and different payloads were written one
\* after the other; the single row of the key is the later one
C6_Witness ==
  \E p \in DOMAIN stored, q \in DOMAIN stored :
    /\ p < q
    /\ castle_data[stored[p].item].name = castle_data[stored[q].item].name
    /\ NarrativeOfItem(stored[p].item) # NarrativeOfItem(stored[q].item)
    /\ replaced
    /\ \A r \in castle_narratives :
         r.castle_name = castle_data[stored[q].item].name =>
           /\ r.id = stored[q].id
           /\ r.generated_narrative = NarrativeOfItem(stored[q].item)
    /\ \E r \in castle_narratives : r.castle_name = castle_data[stored[q].item].name

\* C7: in every state, after any number of runs, the table holds at most one
\* row per castle_name, and its rows are exactly the names stored
\* successfully so far, one row each.
C7_OneRowPerKey ==
  /\ \A r1 \in castle_narratives, r2 \in castle_narratives :
       r1.castle_name = r2.castle_name => r1 = r2
  /\ { r.castle_name : r \in castle_narratives } = succeeded_keys
  /\ Cardinality(castle_narratives) = Cardinality(succeeded_keys)

\* three items with three names were run twice and stored six times, and
\* the table holds three rows
C7_Witness ==
  /\ runs = 2
  /\ pc = "done"
  /\ Len(castle_data) = 3
  /\ Len(stored) = 3
  /\ next_id = 7
  /\ replaced
  /\ Cardinality(castle_narratives) = 3

\* item k stores its narrative and returns in this step
SucceedsNow(k) == tasks[k] = "running" /\ tasks'[k] = "done"

\* C8: a step in which an item fails leaves the table unchanged; a row is
\* added only as the narrative of an item that succeeds in that step, and a
\* row is removed only by the write of an item of the same key that succeeds
\* in that step; in the first run, from an empty table, the rows are exactly
\* the narratives of succeeded items.
C8_FailedNeverPersisted ==
  /\ [][ /\ \A k \in Items :
              (tasks[k] = "running" /\ tasks'[k] = "raised")
                => castle_narratives' = castle_narratives
         /\ \A r \in castle_narratives' \ castle_narratives :
              \E k \in Items :
                /\ SucceedsNow(k)
                /\ r.generated_narrative =
                     narrative_of(castle_data[k], raw_data'[k] = "summary")
         /\ \A r \in castle_narratives \ castle_narratives' :
              \E k \in Items :
                /\ SucceedsNow(k)
                /\ castle_data[k].name = r.castle_name
       ]_vars
  /\ []((runs = 1 /\ pc # "idle") =>
          /\ { r.castle_name : r \in castle_narratives }
               = { castle_data[k].name : k \in Succeeded }
          /\ \A r \in castle_narratives :
               \E k \in Succeeded : r.generated_narrative = NarrativeOfItem(k))

\* first run of [X1, X2, X3] in batches of 2 with X2 failing: two rows,
\* neither of them X2's
C8_Witness ==
  /\ runs = 1
  /\ pc = "done"
  /\ Len(castle_data) = 3
  /\ batch_size = 2
  /\ Failed = { 2 }
  /\ Cardinality(castle_narratives) = 2
  /\ \A r \in castle_narratives :
       r.generated_narrative.socialHistory # castle_data[2].location

\* the items have pairwise distinct natural keys (name, location)
DistinctItems ==
  \A j \in Items, k \in Items :
    j # k => << castle_data[j].name, castle_data[j].location >>
               # << castle_data[k].name, castle_data[k].location >>

\* C9: after a first run (empty table at the start) over items with pairwise
\* distinct natural keys, the table has as many rows as items succeeded and
\* holds the narrative of every succeeded item.
C9_OneRecordPerSucceededItem ==
  (runs = 1 /\ pc = "done" /\ DistinctItems) =>
    /\ Cardinality(castle_narratives) = Cardinality(Succeeded)
    /\ \A k \in Succeeded :
         \E r \in castle_narratives : r.generated_narrative = NarrativeOfItem(k)

\* C10: within a run process_single_castle is started at most once per item
\* and exactly once for every item by the time the run returns; an item that
\* has succeeded or failed keeps that state and is not started again for the
\* rest of the run.
C10_FireOnce ==
  /\ [](\A k \in Items :
          /\ invoked[k] <= 1
          /\ (invoked[k] = 1 <=> tasks[k] \in { "running", "done", "raised" })
          /\ ((pc = "done" /\ batch_size >= 1)
                => (invoked[k] = 1 /\ tasks[k] \in Settled)))
  /\ [][ \A k \in Items :
           (tasks[k] \in Settled /\ runs' = runs /\ pc' # "idle")
             => (tasks'[k] = tasks[k] /\ invoked'[k] = invoked[k]) ]_vars

\* a finished run of two batches whose first item failed and whose last item
\* succeeded, each item started once
C10_Witness ==
  /\ pc = "done"
  /\ Len(castle_data) = 3
  /\ Len(batches) >= 2
  /\ tasks[1] = "raised"
  /\ tasks[3] = "done"
  /\ \A k \in Items : invoked[k] = 1

\* the value the finished run returned
RunResult == run_result(entry, returned, total_castles)

\* the count of succeeded items in the value a run returns
SucceededField(e) == IF e = "thousands" THEN "processed_count" ELSE "total_generated"

\* C11 as stated: the value a finished run returns carries three counts, the
\* number of items supplied, the number succeeded and the number failed.
C11_ProcessingSummary ==
  pc = "done" =>
    \E ft \in DOMAIN RunResult, fs \in DOMAIN RunResult, ff \in DOMAIN RunResult :
      /\ ft # fs /\ ft # ff /\ fs # ff
      /\ RunResult[ft] = Len(castle_data)
      /\ RunResult[fs] = Cardinality(Succeeded)
      /\ RunResult[ff] = Cardinality(Failed)

\* C11 amended: the value a finished run returns carries the number of items
\* that succeeded (and, from run_integrated_pipeline, the number supplied)
\* and no count of failures; in a run with batch_size >= 1 every item has
\* either succeeded or failed, so the number failed is the number supplied
\* minus the number returned.
C11_SucceededCountReturned ==
  pc = "done" =>
    /\ RunResult[SucceededField(entry)] = Cardinality(Succeeded)
    /\ entry = "integrated" => RunResult.total_processed = Len(castle_data)
    /\ \A f \in DOMAIN RunResult :
         f \in { SucceededField(entry), "total_processed" }
    /\ Succeeded \cap Failed = {}
    /\ batch_size >= 1 =>
         /\ Cardinality(Succeeded) + Cardinality(Failed) = Len(castle_data)
         /\ Len(castle_data) - RunResult[SucceededField(entry)] = Cardinality(Failed)

\* [X1, X2, X3] in batches of 2 with X2 failing: 2 succeeded of 3, 1 failed
C11_Witness ==
  /\ pc = "done"
  /\ entry = "integrated"
  /\ batch_size = 2
  /\ Len(castle_data) = 3
  /\ Failed = { 2 }
  /\ RunResult = [ total_generated |-> 2, total_processed |-> 3 ]

\* C12: a run called with batch_size <= 0 ends in an error before any item
\* operation is invoked and before any sink write; it does not return a
\* result.
C12_ConfigurationFault ==
  (runs > 0 /\ batch_size <= 0) =>
    /\ pc = "error"
    /\ returned = -1
    /\ \A k \in Items : invoked[k] = 0
    /\ stored = <<>>

\* items whose sink write was rejected in this run
SinkRejected == { k \in Items : exceptions[k] = "OperationalError" }

\* C13: an item whose write the store rejected is failed (it is not among
\* the succeeded items and no row was stored for it), and the run hands the
\* write failure to its caller: it does not return the plain count a run
\* without write failures returns.
C13_SinkWriteFailurePropagated ==
  \A k \in SinkRejected :
    /\ tasks[k] = "raised"
    /\ \A p \in DOMAIN stored : stored[p].item # k
    /\ pc # "done"

\* the per-batch events logged before a batch is dispatched and after its
\* batch call has returned
BeforeBatchEvents == SelectSeq(progress_log, LAMBDA e : e.event = "processing")
AfterBatchEvents == SelectSeq(progress_log, LAMBDA e : e.event # "processing")

\* number of the batch item k belongs to, and the successes and dispatched
\* items of batches 1 .. b
BatchOf(k) == (k - 1) \div batch_size + 1
CumulativeSucceeded(b) == Cardinality({ k \in Succeeded : BatchOf(k) <= b })
Dispatched(b) == Min(b * batch_size, Len(castle_data))

\* C14 as stated: for each settled batch exactly one event is emitted after
\* it, in batch order, and that event carries the batch's index, its actual
\* size, the cumulative success count and the total.
C14_ProgressEvents ==
  (runs > 0 /\ batch_size >= 1) =>
    /\ Len(AfterBatchEvents) = Len(batch_outcomes)
    /\ \A b \in 1 .. Len(AfterBatchEvents) :
         LET e == AfterBatchEvents[b]
         IN  /\ { "batch_index", "batch_len", "processed_count", "total_castles" }
                  \subseteq DOMAIN e
             /\ e.batch_index = b
             /\ e.batch_len = Len(batches[b])
             /\ e.processed_count = CumulativeSucceeded(b)
             /\ e.total_castles = Len(castle_data)

\* C14 amended: after each batch settles exactly one event is emitted, in
\* batch order.  In process_thousands_of_castles it carries the cumulative
\* success count and the total number of items; the batch's index and actual
\* size are carried by a second event emitted before the batch is dispatched.
\* The cumulative count equals the number of successes in all batches up to
\* and including this one, is non-decreasing and never exceeds the number of
\* items dispatched so far.  In run_integrated_pipeline the event after the
\* batch carries the batch's index only.
C14_ProgressPerBatch ==
  (runs > 0 /\ batch_size >= 1) =>
    /\ Len(AfterBatchEvents) = Len(batch_outcomes)
    /\ entry = "thousands" =>
         /\ Len(BeforeBatchEvents) = Len(batches)
         /\ \A p \in DOMAIN progress_log :
              progress_log[p].event = IF p % 2 = 1 THEN "processing" ELSE "completed"
         /\ \A b \in 1 .. Len(BeforeBatchEvents) :
              /\ BeforeBatchEvents[b].batch_index = b
              /\ BeforeBatchEvents[b].batch_len = Len(batches[b])
         /\ \A b \in 1 .. Len(AfterBatchEvents) :
              LET e == AfterBatchEvents[b]
              IN  /\ DOMAIN e = { "event", "processed_count", "total_castles" }
                  /\ e.processed_count = CumulativeSucceeded(b)
                  /\ e.total_castles = Len(castle_data)
                  /\ e.processed_count <= Dispatched(b)
                  /\ b > 1 => AfterBatchEvents[b - 1].processed_count <= e.processed_count
    /\ entry = "integrated" =>
         /\ Len(BeforeBatchEvents) = 0
         /\ \A b \in 1 .. Len(AfterBatchEvents) :
              /\ DOMAIN AfterBatchEvents[b] = { "event", "batch_index" }
              /\ AfterBatchEvents[b].batch_index = b

\* [X1, X2, X3] in batches of 2 with X2 failing: 1 of 3 after the first
\* batch, 2 of 3 after the second
C14_Witness ==
  /\ pc = "done"
  /\ entry = "thousands"
  /\ Len(castle_data) = 3
  /\ Len(progress_log) = 4
  /\ progress_log =
       << processing_event(0, 2, SubSeq(castle_data, 1, 2)), completed_event(1, 3),
          processing_event(2, 2, SubSeq(castle_data, 3, 3)), completed_event(2, 3) >>
  /\ Failed = { 2 }

\* the failed items of the batches whose batch call has returned, in
\* submission order
RECURSIVE InOrder(_)
InOrder(S) ==
  IF S = {} THEN <<>>
  ELSE LET m == CHOOSE x \in S : \A y \in S : x <= y
       IN  << m >> \o InOrder(S \ { m })

LoggedFailures ==
  InOrder({ k \in Failed : BatchOf(k) <= Len(batch_outcomes) })

ConfigurableDelays == { 0, 1 }

\* C16: a run of two or more batches has performed a pause between each two
\* consecutive batches, and whatever length the caller configures, a pause
\* the run performs has that length, none being performed for length zero.
C16_ConfigurablePacingDelay ==
  /\ (runs > 0 /\ batch_size >= 1 /\ Len(batches) >= 2) => sleeps >= Len(batches) - 1
  /\ \A d \in ConfigurableDelays :
       pc = "sleep" => (d # 0 /\ pause_length(d) = d)

\* items whose Wikipedia request ran into the HTTP client's time bound
TimedOut == { k \in Items : castle_data[k].wikipedia = "timeout" }

\* C17: a batch that is awaited always has an operation that can still
\* settle, or is settled (no operation is stuck for ever), and an item whose
\* operation timed out is settled as a failure: it is not among the
\* succeeded items and no row is stored for it.
C17_TimeoutBoundsEveryOperation ==
  /\ pc = "gather" =>
       \/ gather_ready(tasks, CurrentBatch)
       \/ \E k \in CurrentBatch : tasks[k] \in { "scheduled", "running" }
  /\ \A k \in TimedOut :
       /\ tasks[k] # "done"
       /\ \A p \in DOMAIN stored : stored[p].item # k

\* item k's operation starts in this step
StartsNow(k) == tasks[k] = "scheduled" /\ tasks'[k] = "running"

\* C18: while the dispatcher waits on a batch every item of the batch has
\* been submitted; an item's operation starts while no sibling of its batch
\* has settled, and when the last operation of a batch of k items starts all
\* k operations are in progress at once.
C18_AllSubmittedBeforeWaiting ==
  /\ [](pc = "gather" => \A k \in CurrentBatch : tasks[k] # "pending")
  /\ [][ \A k \in Items :
           StartsNow(k) =>
             /\ \A j \in CurrentBatch : ~is_settled(tasks, j)
             /\ (\A j \in CurrentBatch : j <= k)
                  => \A j \in CurrentBatch : tasks'[j] = "running" ]_vars

\* the three operations of a batch of three are in progress at once
C18_Witness ==
  /\ pc = "gather"
  /\ Cardinality(CurrentBatch) = 3
  /\ \A k \in CurrentBatch : tasks[k] = "running"

\* the writes of this run made after write p under the same key
LaterWrites(p) ==
  { q \in DOMAIN stored :
      q > p /\ castle_data[stored[q].item].name = castle_data[stored[p].item].name }

\* C19: whatever order the operations of a batch complete in, every write
\* made so far in the run is either the row of its key, in full (every
\* column as this write supplied it) and the only row of that key, or has
\* been replaced by a later write to the same key; writes to different keys
\* each have their row, stamped in the order the store received them.
C19_ConcurrentWritesSafe ==
  \A p \in DOMAIN stored :
    LET k    == stored[p].item
        rows == { r \in castle_narratives : r.castle_name = castle_data[k].name }
    IN  /\ Cardinality(rows) = 1
        /\ IF LaterWrites(p) = {}
           THEN \A r \in rows :
                  r = narrative_row(NarrativeOfItem(k), stored[p].id,
                                    r.processing_timestamp)
           ELSE \A r \in rows : r.id # stored[p].id
        /\ \A q \in DOMAIN stored, r \in castle_narratives, r2 \in castle_narratives :
             (p < q /\ r.id = stored[p].id /\ r2.id = stored[q].id)
               => r.processing_timestamp < r2.processing_timestamp

\* a batch of three in progress at once, two of them under one key, has
\* completed in the order c, b, a: two rows, the shared key holding a's record
C19_Witness ==
  /\ pc = "sleep"
  /\ batch_size = 3
  /\ completion = << 3, 2, 1 >>
  /\ Failed = {}
  /\ castle_data[1].name = castle_data[3].name
  /\ NarrativeOfItem(1) # NarrativeOfItem(3)
  /\ Cardinality(castle_narratives) = 2
  /\ \E r \in castle_narratives :
       r.generated_narrative = NarrativeOfItem(1) /\ r.id = stored[3].id

\* the process is started again in this step
RestartsNow == pc # "idle" /\ pc' \in { "idle", "setup_error" }

\* no table name occurs twice in a schema
NoDuplicateTable(db) ==
  \A p \in DOMAIN db.tables, q \in DOMAIN db.tables :
    db.tables[p] = db.tables[q] => p = q

\* C20: every setup call ends normally, on a new store and on one that
\* holds tables and rows; each schema holds exactly one table of each name,
\* the tables the first setup created; and a start of the process, with its
\* one or two setup calls per database, leaves the schemas, every row and
\* the id sequence as they were.
C20_SetupIdempotent ==
  /\ [](/\ pc # "setup_error"
        /\ databases.narratives.status = "ok"
        /\ databases.integration.status = "ok"
        /\ NoDuplicateTable(databases.narratives)
        /\ NoDuplicateTable(databases.integration)
        /\ databases.narratives.tables = << "castle_narratives" >>
        /\ databases.integration.tables =
             << "integration_pipeline", "automation_metrics" >>)
  /\ [][ RestartsNow =>
           /\ databases' = databases
           /\ castle_narratives' = castle_narratives
           /\ next_id' = next_id ]_vars

\* the process was started again on a store that holds three rows, written
\* by two runs
C20_Witness ==
  /\ pc = "idle"
  /\ runs = 2
  /\ Cardinality(castle_narratives) = 3
  /\ replaced
  /\ databases.narratives.tables = << "castle_narratives" >>

\* the raw_data mapping of item k as the loader handed it to the run
raw_data_at_submission(k) == "unset"

\* C21: a submitted item is never changed: the item list is the one the run
\* was given, and once an item's operation has run, successfully or not, its
\* raw_data mapping equals its value at submission.
C21_WorkItemImmutable ==
  \A k \in Items :
    tasks[k] \in Settled =>
      /\ castle_data[k] \in { CastleCatalogue[c] : c \in DOMAIN CastleCatalogue }
      /\ raw_data[k] = raw_data_at_submission(k)

\* C22: every row of the sink has a quality_score between 0 and 1 (0 .. 10
\* tenths), whatever fields of the item are present, and so has the
\* data_quality_score the translator gives a unified record.
C22_QualityScoreInUnitInterval ==
  /\ \A r \in castle_narratives : r.quality_score \in 0 .. 10
  /\ \A p \in DOMAIN unified_castles :
       unified_castles[p].data_quality_score \in 0 .. 10

\* a row was written for an item with every field present, three sources
\* and a Wikipedia summary: the parts add up to 1.2 and the row holds 1.0
C22_Witness ==
  /\ Len(castle_data) = 1
  /\ tasks[1] = "done"
  /\ assess_data_quality_unclamped(castle_data[1], raw_data[1] = "summary") = 12
  /\ \E r \in castle_narratives : r.quality_score = 10

\* the keys present in the sink
KeysOf(rows) == { r.castle_name : r \in rows }

\* C23: no step (a setup call, a run, a write) removes a key from the sink
\* or reduces the number of rows, and a row that is gone was replaced in that
\* step by a newer row of the same key, written by an item of that key which
\* succeeded in the step.
C23_NoDeletionExceptOverwrite ==
  [][ /\ KeysOf(castle_narratives) \subseteq KeysOf(castle_narratives')
      /\ Cardinality(castle_narratives') >= Cardinality(castle_narratives)
      /\ \A r \in castle_narratives :
           r \notin castle_narratives' =>
             /\ \E k \in Items :
                  SucceedsNow(k) /\ castle_data[k].name = r.castle_name
             /\ \E n \in castle_narratives' :
                  /\ n.castle_name = r.castle_name
                  /\ n.id = next_id
                  /\ n.processing_timestamp > r.processing_timestamp ]_vars

\* a second run has returned: the sink holds two keys, a row was replaced,
\* and a row written by the second run is present
C23_Witness ==
  /\ pc = "done"
  /\ runs = 2
  /\ replaced
  /\ Cardinality(KeysOf(castle_narratives)) = 2
  /\ \E r \in castle_narratives : r.id = 4

\* C24: get(key) returns the row most recently written for a key that was
\* written, and not-found for an item key that was never written.
C24_ReadBack ==
  /\ \A r \in castle_narratives :
       sink_get(castle_narratives, r.castle_name)
         = [ outcome |-> "found", record |-> r ]
  /\ \A k \in Items :
       castle_data[k].name \notin KeysOf(castle_narratives) =>
         sink_get(castle_narratives, castle_data[k].name)
           = [ outcome |-> "not-found" ]

\* items for which a fetch fails: the request ends with another status than
\* 200 or with an exception
FetchFailed ==
  { k \in Items : \/ castle_data[k].wikipedia # "summary"
                  \/ castle_data[k].wikidata # "bindings" }

\* C25: a failed Wikipedia or Wikidata fetch does not fail the item.  No
\* task ends with the exception of a request; an item whose fetch failed can
\* complete whenever its task is due to resume; once it has completed, its
\* Wikipedia summary is the empty result unless that fetch succeeded, its
\* narrative was written to the sink, and a run in which no item raised
\* counts it among the succeeded.
C25_FetchFailureAbsorbed ==
  /\ \A k \in Items : exceptions[k] # "ClientError"
  /\ \A k \in FetchFailed :
       /\ (/\ pc = "gather" /\ k \in CurrentBatch /\ tasks[k] = "running"
           /\ all_started(tasks, CurrentBatch))
            => ENABLED TaskSucceed(k)
       /\ tasks[k] = "done" =>
            /\ raw_data[k] = (IF castle_data[k].wikipedia = "summary"
                              THEN "summary" ELSE "empty")
            /\ \E p \in DOMAIN stored : stored[p].item = k
            /\ castle_data[k].name \in KeysOf(castle_narratives)
  /\ (pc = "done" /\ batch_size >= 1 /\ Failed = {}) =>
       returned = Len(castle_data)

\* a run over two items has returned 2: the Wikidata request of the first
\* raised, the Wikipedia request of the second raised
C25_Witness ==
  /\ pc = "done"
  /\ Len(castle_data) = 2
  /\ castle_data[1].wikidata = "timeout"
  /\ castle_data[2].wikipedia = "timeout"
  /\ returned = 2
  /\ Cardinality(castle_narratives) = 2
  /\ \A k \in Items : raw_data[k] = "empty"

NoDuplicateKey(castles) ==
  \A p \in DOMAIN castles, q \in DOMAIN castles :
    p # q => dedup_key(castles[p]) # dedup_key(castles[q])

\* C26: the list run_full_extraction returns has at most target_count
\* entries, holds no two castles of the same (lower-cased name, coordinates)
\* key, and is made of the first occurrences of the keys among the castles
\* collected, in their original order.
C26_ExtractionBoundedAndUnique ==
  extraction_pc = "returned" =>
    /\ Len(extraction_returned) <= target_count
    /\ NoDuplicateKey(extraction_returned)
    /\ extraction_returned = first_n(deduplicate_castles(collected), target_count)

\* C29: from the default worker count (5 .. 32), max_workers stays within
\* 4 .. 64 under every sequence of scale_horizontally calls: a load above
\* 0.8 sets it to min(2 * max_workers, 64), a load below 0.3 to
\* max(max_workers div 2, 4), and a load from 0.3 to 0.8 leaves it as it is.
C29_WorkersWithinBounds ==
  /\ [](max_workers \in 4 .. 64)
  /\ [](scalings = 0 => max_workers \in 5 .. 32)
  /\ [][ scalings' = scalings + 1 =>
           /\ load_factor' > 80 =>
                max_workers' = (IF 2 * max_workers < 64 THEN 2 * max_workers ELSE 64)
           /\ load_factor' < 30 =>
                max_workers' = (IF max_workers \div 2 > 4 THEN max_workers \div 2 ELSE 4)
           /\ load_factor' \in 30 .. 80 => max_workers' = max_workers ]_vars

\* three calls under high load took 32 workers to the cap of 64 and kept
\* them there
C29_Witness ==
  /\ scalings = 3
  /\ load_factor = 100
  /\ max_workers = 64

\* C28: in execute_full_automation_pipeline the three tier processors run
\* concurrently (once started, a processor that has not returned can always
\* take its next step, whatever the others are doing), cultural enhancement
\* starts only after all three have returned, each tier's result is
\* attributed to its own tier whatever the order in which the processors
\* completed, and total_castles_extracted is the sum of the three tiers'
\* total_processed.
C28_TiersGatheredInOrder ==
  /\ \A t \in Tiers :
       ( /\ coordinator_pc = "gather"
         /\ tier_state[t] = "running"
         /\ \A u \in Tiers : tier_state[u] # "created" )
       => ENABLED TierSourceDone(t)
  /\ ( coordinator_pc = "enhance" \/ total_enhanced # 0 )
       => \A t \in Tiers : tier_state[t] = "done"
  /\ coordinator_pc \in { "enhance", "returned", "validated", "ended" } =>
       /\ Len(tier_results) = 3
       /\ \A t \in Tiers :
            /\ tier_results[t].tier = TierLabel(t)
            /\ tier_results[t].total_processed = tier_total[t]
  /\ coordinator_pc \in { "returned", "validated", "ended" } =>
       overall_metrics.total_castles_extracted
         = tier_total[1] + tier_total[2] + tier_total[3]

\* the default call (50,000 castles, cultural generation enabled) has
\* returned: the processors completed in the order one, two, three, 26,750
\* + 4,275 + 3,150 castles were extracted and 32,465 enhanced
C28_Witness ==
  /\ coordinator_pc = "returned"
  /\ pipeline_call.caller = "coordinator"
  /\ pipeline_call.target_total = 50000
  /\ pipeline_call.enable_cultural_generation
  /\ tier_completion = << 1, 2, 3 >>
  /\ tier_results[1].total_processed = 26750
  /\ tier_results[2].total_processed = 4275
  /\ tier_results[3].total_processed = 3150
  /\ overall_metrics.total_castles_extracted = 34175
  /\ overall_metrics.total_castles_enhanced = 32465

\* the three processors are under way at the same time: each has processed
\* a source and none has returned
TiersRunTogether ==
  /\ coordinator_pc = "gather"
  /\ \A t \in Tiers : tier_state[t] = "running" /\ tier_position[t] >= 1

\* C30: every execute_breakthrough_pipeline run that comes to its end
\* reports a status (the results are returned), and the status is
\* PARTIAL_BREAKTHROUGH, never BREAKTHROUGH_ACHIEVED.
C30_CompletedRunReportsPartial ==
  coordinator_pc = "ended" =>
    /\ breakthrough_outcome = "returned"
    /\ breakthrough_achievement.status = "PARTIAL_BREAKTHROUGH"

\* the status a run computes in _validate_breakthrough_achievement is
\* PARTIAL_BREAKTHROUGH for every target: the Tier 2 and Tier 3 counts are
\* 4,275 and 3,150 whatever the target, so the count-weighted mean of 0.90,
\* 0.65 and 0.30 is not above 0.9 and three_tier_coordination is false
ComputedStatusIsPartial ==
  coordinator_pc \in { "validated", "ended" } =>
    /\ breakthrough_achievement.status = "PARTIAL_BREAKTHROUGH"
    /\ ~breakthrough_achievement.criteria_validation.three_tier_coordination
    /\ tier_results[2].total_processed = 4275
    /\ tier_results[3].total_processed = 3150
    /\ ~level_above(overall_metrics.overall_automation_level, 90)

\* a run with the default arguments has computed its status: the other four
\* criteria hold
OtherCriteriaMet ==
  /\ coordinator_pc = "validated"
  /\ pipeline_call.target_total = 50000
  /\ breakthrough_achievement.criteria_validation.scalability_unlimited
  /\ breakthrough_achievement.criteria_validation.cultural_generation_operational
  /\ breakthrough_achievement.criteria_validation.worker1_integration
  /\ breakthrough_achievement.criteria_validation.target_capacity_exceeded

====
